---- MODULE Spec2Model ----
(***************************************************************************)
(* Model of run_sam.py (napari_nxf SAM module): the per-slice segmentation *)
(* loop of _run_sam_stack, the rasterizer create_mask_arr, the label       *)
(* aligner align_segment_labels and the checkpoint protocol of save_masks. *)
(*                                                                         *)
(* A label array (one slice) is a function from its pixel positions to     *)
(* naturals; all operations of run_sam.py on slices are element-wise or    *)
(* boolean-mask operations, so the 2D layout of the pixels is immaterial   *)
(* and a slice is modelled by its flattened pixels.  A volume is a         *)
(* sequence of slices.  A candidate mask is a record with the two keys the *)
(* code reads: "segmentation" (boolean array) and "area".                  *)
(***************************************************************************)
EXTENDS Integers, Sequences, FiniteSets, TLC

VARIABLES
    pc,         \* position in run_sam / _run_sam_stack / save_masks
    ndim,       \* run_sam: ndim after the guess_rgb adjustment (lines 21-24)
    nslices,    \* img_stack.shape[0]
    idx,        \* loop variable of _run_sam_stack (line 54)
    gen,        \* masks returned by model.generate (line 41)
    masks,      \* mask_img returned by _run_sam_slice (line 66)
    all_masks,  \* the label volume (line 49, rebound at line 88)
    disk,       \* files of root_dir/"sam_masks": name -> saved array
    exc,        \* the exception that ended the run, "none" while running
    raw,        \* history: the arrays stored at line 68, before alignment
    threshold,  \* threshold of align_segment_labels, a rational <<num, den>>
    norm        \* normalize_slice: its arguments and its return value

vars == <<pc, ndim, nslices, idx, gen, masks, all_masks, disk, exc, raw, threshold, norm>>

----------------------------------------------------------------------------
(* Bounds of the specifications *)

MaxSlices == 3      \* deepest stack of the orchestrator specification
NPix == 2           \* pixels per slice in the rasterizer specification
MaxArea == 2        \* largest "area" value in the rasterizer specification
MaxCands == 3       \* most candidates per generator output (rasterizer spec.)
APix == 3           \* pixels per slice in the aligner specification
MaxLabel == 2       \* largest identifier in the aligner specification
MaxDepth == 3       \* deepest constant stack in the aligner specification
NormPix == 2        \* pixels per slice in the normalizer specification
ChainDepth == 4      \* deepest stack in the specification of whole stacks
MaxValue == 2       \* largest intensity and limit in the normalizer specification

----------------------------------------------------------------------------
(* np.zeros / np.zeros_like *)

Zeros(shape) == [p \in shape |-> 0]

(* create_mask_arr, lines 185-194 *)

\* mutant of InsertAnn: reverse=True dropped, the sort is ascending
InsertAnn_Ascending(s, x) ==
    LET pos == Cardinality({i \in DOMAIN s : s[i].area <= x.area})
    IN  SubSeq(s, 1, pos) \o <<x>> \o SubSeq(s, pos + 1, Len(s))

\* mutant of InsertAnn: descending, but an element goes in front of the
\* elements of equal area (an unstable sort that reverses ties)
InsertAnn_TiesReversed(s, x) ==
    LET pos == Cardinality({i \in DOMAIN s : s[i].area > x.area})
    IN  SubSeq(s, 1, pos) \o <<x>> \o SubSeq(s, pos + 1, Len(s))

\* where sorted(..., reverse=True) puts x in the already sorted prefix s:
\* behind every element whose area is >= x's (the sort is stable)
InsertAnn(s, x) ==
    LET pos == Cardinality({i \in DOMAIN s : s[i].area >= x.area})
    IN  SubSeq(s, 1, pos) \o <<x>> \o SubSeq(s, pos + 1, Len(s))

RECURSIVE SortFrom(_, _, _)
SortFrom(anns, i, acc) ==
    IF i > Len(anns) THEN acc
    ELSE SortFrom(anns, i + 1, InsertAnn(acc, anns[i]))

\* line 187
sorted_anns(anns) == SortFrom(anns, 1, <<>>)

\* mutant of PaintFrom: the enumerate index is painted instead of i + 1, so
\* the first candidate is painted with the background value 0
RECURSIVE PaintFrom_ZeroBased(_, _, _)
PaintFrom_ZeroBased(anns, i, mask_img) ==
    IF i > Len(anns) THEN mask_img
    ELSE PaintFrom_ZeroBased(anns, i + 1,
            [p \in DOMAIN mask_img |->
                IF anns[i].segmentation[p] THEN i - 1 ELSE mask_img[p]])

\* lines 192-193; i is 1-based here, so the painted value i is Python's i + 1
RECURSIVE PaintFrom(_, _, _)
PaintFrom(anns, i, mask_img) ==
    IF i > Len(anns) THEN mask_img
    ELSE PaintFrom(anns, i + 1,
            [p \in DOMAIN mask_img |->
                IF anns[i].segmentation[p] THEN i ELSE mask_img[p]])

\* line 191 indexes sorted_anns[0]: IndexError on an empty list
create_mask_arr_raises(anns) == Len(anns) = 0

create_mask_arr(anns) ==
    LET s == sorted_anns(anns)
    IN  PaintFrom(s, 1, Zeros(DOMAIN s[1].segmentation))

----------------------------------------------------------------------------
(* align_segment_labels, lines 110-159 *)

\* np.unique(..., return_counts=True): the values, and the count of one value
Unique(arr) == {arr[p] : p \in DOMAIN arr}
CountOf(arr, v) == Cardinality({p \in DOMAIN arr : arr[p] = v})

\* a set of integers as the ascending sequence np.unique returns
RECURSIVE Ascending(_)
Ascending(S) ==
    IF S = {} THEN <<>>
    ELSE LET m == CHOOSE x \in S : \A y \in S : x <= y
         IN  <<m>> \o Ascending(S \ {m})

\* mutant of current_roi_labels: the filter != 0 of lines 138-143 dropped
current_roi_labels_WithZero(current_slice, next_slice, next_label) ==
    {current_slice[p] : p \in {q \in DOMAIN next_slice : next_slice[q] = next_label}}

\* lines 134-143: the non-zero values of current_slice under next_label
current_roi_labels(current_slice, next_slice, next_label) ==
    {current_slice[p] : p \in {q \in DOMAIN next_slice : next_slice[q] = next_label}} \ {0}

current_roi_label_count(current_slice, next_slice, next_label, v) ==
    Cardinality({p \in DOMAIN next_slice :
                    next_slice[p] = next_label /\ current_slice[p] = v})

\* line 145
current_max_count(current_slice, next_slice, next_label) ==
    LET roi == current_roi_labels(current_slice, next_slice, next_label)
        cnt(v) == current_roi_label_count(current_slice, next_slice, next_label, v)
    IN  cnt(CHOOSE v \in roi : \A w \in roi : cnt(v) >= cnt(w))

\* mutant of current_max_count_label: the position np.argmax returns is used
\* as the label, instead of indexing current_roi_labels with it
current_max_count_label_Index(current_slice, next_slice, next_label) ==
    LET roi == current_roi_labels(current_slice, next_slice, next_label)
        cnt(v) == current_roi_label_count(current_slice, next_slice, next_label, v)
        best == {v \in roi : \A w \in roi : cnt(v) >= cnt(w)}
        first == CHOOSE v \in best : \A w \in best : v <= w
    IN  Cardinality({w \in roi : w < first})

\* mutant of current_max_count_label: the last maximum is taken, the largest
\* label with the maximal count
current_max_count_label_Largest(current_slice, next_slice, next_label) ==
    LET roi == current_roi_labels(current_slice, next_slice, next_label)
        cnt(v) == current_roi_label_count(current_slice, next_slice, next_label, v)
        best == {v \in roi : \A w \in roi : cnt(v) >= cnt(w)}
    IN  CHOOSE v \in best : \A w \in best : v >= w

\* lines 146-148: np.argmax returns the first maximum, and the labels of
\* np.unique are ascending, so the smallest label with the maximal count
current_max_count_label(current_slice, next_slice, next_label) ==
    LET roi == current_roi_labels(current_slice, next_slice, next_label)
        cnt(v) == current_roi_label_count(current_slice, next_slice, next_label, v)
        best == {v \in roi : \A w \in roi : cnt(v) >= cnt(w)}
    IN  CHOOSE v \in best : \A w \in best : v <= w

\* mutant of OverlapAtLeast: overlap > threshold
OverlapAtLeast_Strict(max_count, next_label_count, thr) ==
    max_count * thr[2] > thr[1] * next_label_count

\* line 149-150: overlap >= threshold, with threshold = thr[1] / thr[2].
\* Both sides are float64 in the code; the quotient of two small integers and
\* the threshold are each the double nearest to a rational, rounding is
\* monotone and distinct rationals of small denominators round to distinct
\* doubles, so the comparison is that of the rationals.
OverlapAtLeast(max_count, next_label_count, thr) ==
    max_count * thr[2] >= thr[1] * next_label_count

\* lines 144-157: the value written over the pixels of next_label
NewLabel(current_slice, next_slice, next_label, thr) ==
    IF current_roi_labels(current_slice, next_slice, next_label) # {}
    THEN IF OverlapAtLeast(current_max_count(current_slice, next_slice, next_label),
                           CountOf(next_slice, next_label), thr)
         THEN current_max_count_label(current_slice, next_slice, next_label)
         ELSE next_label
    ELSE next_label

\* mutant of RelabelFrom: the relabelling is done in place, so the pixels an
\* earlier label was rewritten to are taken for pixels of a later label
RECURSIVE RelabelFrom_InPlace(_, _, _, _, _, _)
RelabelFrom_InPlace(current_slice, next_slice, next_labels, k, new_next_slice, thr) ==
    IF k > Len(next_labels) THEN new_next_slice
    ELSE RelabelFrom_InPlace(current_slice, next_slice, next_labels, k + 1,
            [p \in DOMAIN new_next_slice |->
                IF next_slice[p] = next_labels[k] \/ new_next_slice[p] = next_labels[k]
                THEN NewLabel(current_slice, next_slice, next_labels[k], thr)
                ELSE new_next_slice[p]],
            thr)

\* mutant of RelabelFrom: a relabelled pixel takes the value of current_slice
\* at that pixel, where it has one, instead of the one value chosen for the label
RECURSIVE RelabelFrom_PerPixel(_, _, _, _, _, _)
RelabelFrom_PerPixel(current_slice, next_slice, next_labels, k, new_next_slice, thr) ==
    IF k > Len(next_labels) THEN new_next_slice
    ELSE RelabelFrom_PerPixel(current_slice, next_slice, next_labels, k + 1,
            [p \in DOMAIN new_next_slice |->
                IF next_slice[p] = next_labels[k]
                THEN IF NewLabel(current_slice, next_slice, next_labels[k], thr)
                            # next_labels[k]
                        /\ current_slice[p] # 0
                     THEN current_slice[p]
                     ELSE NewLabel(current_slice, next_slice, next_labels[k], thr)
                ELSE new_next_slice[p]],
            thr)

\* lines 131-157: the loop over next_labels, in the order of the sequence
RECURSIVE RelabelFrom(_, _, _, _, _, _)
RelabelFrom(current_slice, next_slice, next_labels, k, new_next_slice, thr) ==
    IF k > Len(next_labels) THEN new_next_slice
    ELSE RelabelFrom(current_slice, next_slice, next_labels, k + 1,
            [p \in DOMAIN new_next_slice |->
                IF next_slice[p] = next_labels[k]
                THEN NewLabel(current_slice, next_slice, next_labels[k], thr)
                ELSE new_next_slice[p]],
            thr)

\* lines 122-158: one iteration of the outer loop; i is 1-based
AlignNext(vol, i, thr) ==
    LET current_slice == vol[i]
        next_slice == vol[i + 1]
        next_labels == Ascending(Unique(next_slice) \ {0})
    IN  IF Len(next_labels) > 0
        THEN [vol EXCEPT ![i + 1] =
                RelabelFrom(current_slice, next_slice, next_labels, 1,
                            Zeros(DOMAIN next_slice), thr)]
        ELSE vol

\* mutant of AlignFrom: every slice is aligned against the slice before it
\* as it was passed in, not against its aligned version
RECURSIVE AlignFrom_Unchained(_, _, _)
AlignFrom_Unchained(vol, i, thr) ==
    IF i > Len(vol) - 1 THEN vol
    ELSE [AlignFrom_Unchained(vol, i + 1, thr)
            EXCEPT ![i + 1] = AlignNext(vol, i, thr)[i + 1]]

RECURSIVE AlignFrom(_, _, _)
AlignFrom(vol, i, thr) ==
    IF i > Len(vol) - 1 THEN vol
    ELSE AlignFrom(AlignNext(vol, i, thr), i + 1, thr)

align_segment_labels(vol, thr) == AlignFrom(vol, 1, thr)

\* the default threshold=0.5 of line 110
DefaultThreshold == <<1, 2>>

----------------------------------------------------------------------------
(* The files of root_dir / "sam_masks" *)

\* f"{stem}_masks_{i}.npy" (lines 85, 204, 207) and f"{stem}_masks_all.npy"
\* (line 210), for the one stem of the run
CheckpointName(i) == <<"masks", i>>
FinalName == <<"masks_all">>

IsCheckpoint(name) == Len(name) = 2

\* np.save(save_path, arr): creates or overwrites
Saved(d, name, arr) ==
    [n \in DOMAIN d \cup {name} |-> IF n = name THEN arr ELSE d[n]]

\* Path.unlink(): FileNotFoundError when the file is missing (missing_ok is
\* not passed), OSError when the file system refuses
UnlinkRaises(d, name, os_ok) == name \notin DOMAIN d \/ ~os_ok

Unlinked(d, name) == [n \in DOMAIN d \ {name} |-> d[n]]

UnlinkError(d, name) ==
    IF name \notin DOMAIN d THEN "FileNotFoundError" ELSE "OSError"

----------------------------------------------------------------------------
(* The generator (external): what model.generate may return for a slice of *)
(* two pixels.  <<>> is SAM finding no mask.                               *)

StackShape == {1, 2}

Ann(region, a) == [segmentation |-> [p \in StackShape |-> p \in region], area |-> a]

GenOutputs ==
    { <<>>,
      <<Ann({1, 2}, 2)>>,
      <<Ann({1}, 1)>>,
      <<Ann({2}, 1)>>,
      <<Ann({2}, 1), Ann({1, 2}, 2)>>,
      <<Ann({1}, 1), Ann({2}, 1)>>,
      <<Ann({2}, 1), Ann({1}, 1)>> }

----------------------------------------------------------------------------
(* run_sam and _run_sam_stack *)

Init ==
    /\ pc = "start"
    /\ ndim \in {2, 3, 4}
    /\ nslices \in IF ndim = 3 THEN 1..MaxSlices ELSE {0}
    /\ idx = 0
    /\ gen = <<>>
    /\ masks = <<>>
    /\ all_masks = <<>>
    /\ disk = <<>>
    /\ exc = "none"
    /\ raw = <<>>
    /\ threshold = DefaultThreshold
    /\ norm = <<>>

\* mutant of RunSam: "elif ndim == 3" written as "else"
RunSam_NoShapeCheck ==
    /\ pc = "start"
    /\ IF ndim = 2
       THEN /\ pc' = "generate"
            /\ UNCHANGED <<all_masks, raw, exc>>
       ELSE /\ pc' = "loop"
            /\ all_masks' = [i \in 1..nslices |-> Zeros(StackShape)]
            /\ raw' = [i \in 1..nslices |-> Zeros(StackShape)]
            /\ UNCHANGED exc
    /\ UNCHANGED <<ndim, nslices, idx, gen, masks, disk, threshold, norm>>

\* lines 26-31 and, for a stack, line 49 and the loop entry of line 54
RunSam ==
    /\ pc = "start"
    /\ IF ndim = 2
       THEN /\ pc' = "generate"
            /\ UNCHANGED <<all_masks, raw, exc>>
       ELSE IF ndim = 3
       THEN /\ pc' = "loop"
            /\ all_masks' = [i \in 1..nslices |-> Zeros(StackShape)]
            /\ raw' = [i \in 1..nslices |-> Zeros(StackShape)]
            /\ UNCHANGED exc
       ELSE /\ pc' = "raised"
            /\ exc' = "ValueError"
            /\ UNCHANGED <<all_masks, raw>>
    /\ UNCHANGED <<ndim, nslices, idx, gen, masks, disk, threshold, norm>>

\* mutant of Generate: a failing generator removes the files written so far
Generate_CleansUp ==
    /\ \/ pc = "generate"
       \/ pc = "loop" /\ idx < nslices
    /\ \/ /\ gen' \in GenOutputs
          /\ pc' = "rasterize"
          /\ UNCHANGED <<exc, disk>>
       \/ /\ pc' = "raised"
          /\ exc' = "GenerateError"
          /\ disk' = <<>>
          /\ UNCHANGED gen
    /\ UNCHANGED <<ndim, nslices, idx, masks, all_masks, raw, threshold, norm>>

\* line 41 (reached from line 27, or from line 66 for slice idx): the
\* generator returns a candidate list, or raises
Generate ==
    /\ \/ pc = "generate"
       \/ pc = "loop" /\ idx < nslices
    /\ \/ /\ gen' \in GenOutputs
          /\ pc' = "rasterize"
          /\ UNCHANGED exc
       \/ /\ pc' = "raised"
          /\ exc' = "GenerateError"
          /\ UNCHANGED gen
    /\ UNCHANGED <<ndim, nslices, idx, masks, all_masks, disk, raw, threshold, norm>>

\* mutant of Rasterize: an empty candidate list gives an all-zero slice
Rasterize_EmptyAsZeros ==
    /\ pc = "rasterize"
    /\ masks' = IF create_mask_arr_raises(gen) THEN Zeros(StackShape)
                ELSE create_mask_arr(gen)
    /\ UNCHANGED exc
    /\ IF ndim = 2
       THEN /\ all_masks' = masks'
            /\ raw' = masks'
            /\ pc' = "save_all"
       ELSE /\ pc' = "store"
            /\ UNCHANGED <<all_masks, raw>>
    /\ UNCHANGED <<ndim, nslices, idx, gen, disk, threshold, norm>>

\* lines 43-44; for 2D input the result is run_sam's all_masks (line 27)
Rasterize ==
    /\ pc = "rasterize"
    /\ IF create_mask_arr_raises(gen)
       THEN /\ pc' = "raised"
            /\ exc' = "IndexError"
            /\ UNCHANGED <<masks, all_masks, raw>>
       ELSE /\ masks' = create_mask_arr(gen)
            /\ UNCHANGED exc
            /\ IF ndim = 2
               THEN /\ all_masks' = masks'
                    /\ raw' = masks'
                    /\ pc' = "save_all"
               ELSE /\ pc' = "store"
                    /\ UNCHANGED <<all_masks, raw>>
    /\ UNCHANGED <<ndim, nslices, idx, gen, disk, threshold, norm>>

\* mutant of Store: all_masks[...] = masks, the slice broadcast over the volume
Store_Broadcast ==
    /\ pc = "store"
    /\ all_masks' = [i \in DOMAIN all_masks |-> masks]
    /\ raw' = [i \in DOMAIN raw |-> masks]
    /\ pc' = IF idx < nslices - 1 THEN "save_unlink" ELSE "last_unlink"
    /\ UNCHANGED <<ndim, nslices, idx, gen, masks, disk, exc, threshold, norm>>

\* line 68 and the branch of line 71
Store ==
    /\ pc = "store"
    /\ all_masks' = [all_masks EXCEPT ![idx + 1] = masks]
    /\ raw' = [raw EXCEPT ![idx + 1] = masks]
    /\ pc' = IF idx < nslices - 1 THEN "save_unlink" ELSE "last_unlink"
    /\ UNCHANGED <<ndim, nslices, idx, gen, masks, disk, exc, threshold, norm>>

\* mutant of SaveUnlink: a failing unlink is swallowed and the save goes on
SaveUnlink_SwallowsErrors ==
    /\ pc = "save_unlink"
    /\ IF idx > 0
       THEN \E os_ok \in BOOLEAN :
              IF UnlinkRaises(disk, CheckpointName(idx - 1), os_ok)
              THEN /\ pc' = "save_write"
                   /\ UNCHANGED <<disk, exc>>
              ELSE /\ pc' = "save_write"
                   /\ disk' = Unlinked(disk, CheckpointName(idx - 1))
                   /\ UNCHANGED exc
       ELSE /\ pc' = "save_write"
            /\ UNCHANGED <<disk, exc>>
    /\ UNCHANGED <<ndim, nslices, idx, gen, masks, all_masks, raw, threshold, norm>>

\* mutant of SaveUnlink: the previous checkpoint is not removed
SaveUnlink_KeepsOld ==
    /\ pc = "save_unlink"
    /\ pc' = "save_write"
    /\ UNCHANGED <<ndim, nslices, idx, gen, masks, all_masks, disk, exc, raw, threshold, norm>>

\* save_masks(stack_slice=True, idx=idx), lines 203-207: the previous
\* checkpoint is removed before the new one is saved
SaveUnlink ==
    /\ pc = "save_unlink"
    /\ IF idx > 0
       THEN \E os_ok \in BOOLEAN :
              IF UnlinkRaises(disk, CheckpointName(idx - 1), os_ok)
              THEN /\ pc' = "raised"
                   /\ exc' = UnlinkError(disk, CheckpointName(idx - 1))
                   /\ UNCHANGED disk
              ELSE /\ pc' = "save_write"
                   /\ disk' = Unlinked(disk, CheckpointName(idx - 1))
                   /\ UNCHANGED exc
       ELSE /\ pc' = "save_write"
            /\ UNCHANGED <<disk, exc>>
    /\ UNCHANGED <<ndim, nslices, idx, gen, masks, all_masks, raw, threshold, norm>>

\* mutant of SaveWrite: after a failed np.save the loop starts the slice again
SaveWrite_RetriesSlice ==
    /\ pc = "save_write"
    /\ \E os_ok \in BOOLEAN :
         IF os_ok
         THEN /\ disk' = Saved(disk, CheckpointName(idx), all_masks)
              /\ idx' = idx + 1
              /\ pc' = "loop"
              /\ UNCHANGED exc
         ELSE /\ pc' = "loop"
              /\ UNCHANGED <<disk, idx, exc>>
    /\ UNCHANGED <<ndim, nslices, gen, masks, all_masks, raw, threshold, norm>>

\* mutant of SaveWrite: the checkpoint is named with a 1-based slice number
SaveWrite_NamedNext ==
    /\ pc = "save_write"
    /\ \E os_ok \in BOOLEAN :
         IF os_ok
         THEN /\ disk' = Saved(disk, CheckpointName(idx + 1), all_masks)
              /\ idx' = idx + 1
              /\ pc' = "loop"
              /\ UNCHANGED exc
         ELSE /\ pc' = "raised"
              /\ exc' = "SaveError"
              /\ UNCHANGED <<disk, idx>>
    /\ UNCHANGED <<ndim, nslices, gen, masks, all_masks, raw, threshold, norm>>

\* save_masks(stack_slice=True, idx=idx), line 212, then the next iteration
SaveWrite ==
    /\ pc = "save_write"
    /\ \E os_ok \in BOOLEAN :
         IF os_ok
         THEN /\ disk' = Saved(disk, CheckpointName(idx), all_masks)
              /\ idx' = idx + 1
              /\ pc' = "loop"
              /\ UNCHANGED exc
         ELSE /\ pc' = "raised"
              /\ exc' = "SaveError"
              /\ UNCHANGED <<disk, idx>>
    /\ UNCHANGED <<ndim, nslices, gen, masks, all_masks, raw, threshold, norm>>

\* mutant of LastUnlink: the penultimate checkpoint is left on disk
LastUnlink_KeepsOld ==
    /\ pc = "last_unlink"
    /\ idx' = idx + 1
    /\ pc' = "loop"
    /\ UNCHANGED <<ndim, nslices, gen, masks, all_masks, disk, exc, raw, threshold, norm>>

\* lines 79-86: the last slice removes the penultimate checkpoint
LastUnlink ==
    /\ pc = "last_unlink"
    /\ \E os_ok \in BOOLEAN :
         IF UnlinkRaises(disk, CheckpointName(idx - 1), os_ok)
         THEN /\ pc' = "raised"
              /\ exc' = UnlinkError(disk, CheckpointName(idx - 1))
              /\ UNCHANGED <<disk, idx>>
         ELSE /\ disk' = Unlinked(disk, CheckpointName(idx - 1))
              /\ idx' = idx + 1
              /\ pc' = "loop"
              /\ UNCHANGED exc
    /\ UNCHANGED <<ndim, nslices, gen, masks, all_masks, raw, threshold, norm>>

\* mutant of AlignStack: the volume is returned without the alignment pass
AlignStack_Skipped ==
    /\ pc = "loop"
    /\ idx = nslices
    /\ pc' = "save_all"
    /\ UNCHANGED <<ndim, nslices, idx, gen, masks, all_masks, disk, exc, raw, threshold, norm>>

\* lines 88-89, after the loop: the whole volume is aligned and returned
AlignStack ==
    /\ pc = "loop"
    /\ idx = nslices
    /\ all_masks' = align_segment_labels(all_masks, threshold)
    /\ pc' = "save_all"
    /\ UNCHANGED <<ndim, nslices, idx, gen, masks, disk, exc, raw, threshold, norm>>

\* mutant of SaveAll: save_masks called with stack_slice=True, idx=0
SaveAll_AsSlice ==
    /\ pc = "save_all"
    /\ \E os_ok \in BOOLEAN :
         IF os_ok
         THEN /\ disk' = Saved(disk, CheckpointName(0), all_masks)
              /\ pc' = "done"
              /\ UNCHANGED exc
         ELSE /\ pc' = "raised"
              /\ exc' = "SaveError"
              /\ UNCHANGED disk
    /\ UNCHANGED <<ndim, nslices, idx, gen, masks, all_masks, raw, threshold, norm>>

\* lines 32-33: save_masks(all=True) (lines 209-212), then return
SaveAll ==
    /\ pc = "save_all"
    /\ \E os_ok \in BOOLEAN :
         IF os_ok
         THEN /\ disk' = Saved(disk, FinalName, all_masks)
              /\ pc' = "done"
              /\ UNCHANGED exc
         ELSE /\ pc' = "raised"
              /\ exc' = "SaveError"
              /\ UNCHANGED disk
    /\ UNCHANGED <<ndim, nslices, idx, gen, masks, all_masks, raw, threshold, norm>>

Next ==
    \/ RunSam
    \/ Generate
    \/ Rasterize
    \/ Store
    \/ SaveUnlink
    \/ SaveWrite
    \/ LastUnlink
    \/ AlignStack
    \/ SaveAll

Spec == Init /\ [][Next]_vars

----------------------------------------------------------------------------
(* create_mask_arr on its own: every candidate list within the bounds *)

RasterShape == 1..NPix

Candidates == [segmentation : [RasterShape -> BOOLEAN], area : 1..MaxArea]

RECURSIVE SeqsUpTo(_, _)
SeqsUpTo(S, n) ==
    IF n = 0 THEN {<<>>}
    ELSE LET shorter == SeqsUpTo(S, n - 1)
         IN  shorter \cup {Append(q, x) : q \in {r \in shorter : Len(r) = n - 1}, x \in S}

InitRaster ==
    /\ pc = "raster_call"
    /\ gen \in SeqsUpTo(Candidates, MaxCands)
    /\ ndim = 2
    /\ nslices = 0
    /\ idx = 0
    /\ masks = <<>>
    /\ all_masks = <<>>
    /\ disk = <<>>
    /\ exc = "none"
    /\ raw = <<>>
    /\ threshold = DefaultThreshold
    /\ norm = <<>>

\* mask_img = create_mask_arr(masks), line 43
CreateMaskArr ==
    /\ pc = "raster_call"
    /\ IF create_mask_arr_raises(gen)
       THEN /\ pc' = "raised"
            /\ exc' = "IndexError"
            /\ UNCHANGED masks
       ELSE /\ pc' = "raster_ret"
            /\ masks' = create_mask_arr(gen)
            /\ UNCHANGED exc
    /\ UNCHANGED <<ndim, nslices, idx, gen, all_masks, disk, raw, threshold, norm>>

NextRaster == CreateMaskArr

SpecRaster == InitRaster /\ [][NextRaster]_vars

----------------------------------------------------------------------------
(* align_segment_labels on its own: every pair (previous, current) and     *)
(* every stack of identical slices within the bounds, for thresholds on    *)
(* both sides of the default                                               *)

AlignShape == 1..APix

LabelArrays == [AlignShape -> 0..MaxLabel]

Thresholds == {<<1, 3>>, <<1, 2>>, <<2, 3>>, <<1, 1>>, <<3, 2>>}

AlignInputs ==
    {<<previous, current>> : previous \in LabelArrays, current \in LabelArrays}
    \cup {[i \in 1..n |-> s] : n \in 1..MaxDepth, s \in LabelArrays}

InitAlign ==
    /\ pc = "align_call"
    /\ raw \in AlignInputs
    /\ all_masks = raw
    /\ threshold \in Thresholds
    /\ norm = <<>>
    /\ ndim = 3
    /\ nslices = Len(raw)
    /\ idx = 0
    /\ gen = <<>>
    /\ masks = <<>>
    /\ disk = <<>>
    /\ exc = "none"

\* all_masks = align_segment_labels(all_masks, threshold)
AlignCall ==
    /\ pc = "align_call"
    /\ all_masks' = align_segment_labels(all_masks, threshold)
    /\ pc' = "align_ret"
    /\ UNCHANGED <<ndim, nslices, idx, gen, masks, disk, exc, raw, threshold, norm>>

NextAlign == AlignCall

SpecAlign == InitAlign /\ [][NextAlign]_vars

(* align_segment_labels on whole stacks: every stack of up to ChainDepth
   slices of two pixels with the identifiers 0..2 *)

ChainShape == {1, 2}

ChainArrays == [ChainShape -> {0, 1, 2}]

ChainInputs == UNION {[1..n -> ChainArrays] : n \in 1..ChainDepth}

InitChain ==
    /\ pc = "align_call"
    /\ raw \in ChainInputs
    /\ all_masks = raw
    /\ threshold \in Thresholds
    /\ norm = <<>>
    /\ ndim = 3
    /\ nslices = Len(raw)
    /\ idx = 0
    /\ gen = <<>>
    /\ masks = <<>>
    /\ disk = <<>>
    /\ exc = "none"

SpecChain == InitChain /\ [][NextAlign]_vars

----------------------------------------------------------------------------
(* normalize_slice, lines 162-182.  Intensities and limits are finite      *)
(* numbers, modelled by integers; None is the empty tuple.  A returned     *)
(* value is the exact fraction <<num, den>>: den is 1 for img_slice * 0    *)
(* and src_hi - src_lo for the linear rescale.                             *)

None == <<>>

ArrayMin(arr) == CHOOSE v \in Unique(arr) : \A w \in Unique(arr) : v <= w
ArrayMax(arr) == CHOOSE v \in Unique(arr) : \A w \in Unique(arr) : v >= w

\* lines 164-165
SourceLimits(img_slice, source_limits) ==
    IF source_limits = None
    THEN <<ArrayMin(img_slice), ArrayMax(img_slice)>>
    ELSE source_limits

\* lines 167-168
TargetLimits(target_limits) ==
    IF target_limits = None THEN <<0, 1>> ELSE target_limits

\* mutant of ZeroWidth: only the source range is tested
ZeroWidth_SourceOnly(src, tgt) == src[1] = src[2]

\* lines 170-173
ZeroWidth(src, tgt) == src[1] = src[2] \/ tgt[1] = tgt[2]

\* lines 176-181: (x - src_lo) / (src_hi - src_lo) * (tgt_hi - tgt_lo) + tgt_lo
Rescaled(x, src, tgt) ==
    <<(x - src[1]) * (tgt[2] - tgt[1]) + tgt[1] * (src[2] - src[1]),
      src[2] - src[1]>>

normalize_slice(img_slice, source_limits, target_limits) ==
    LET src == SourceLimits(img_slice, source_limits)
        tgt == TargetLimits(target_limits)
    IN  IF ZeroWidth(src, tgt)
        THEN [p \in DOMAIN img_slice |-> <<img_slice[p] * 0, 1>>]
        ELSE [p \in DOMAIN img_slice |-> Rescaled(img_slice[p], src, tgt)]

NormShape == 1..NormPix

Limits == {None} \cup ((0..MaxValue) \X (0..MaxValue))

InitNorm ==
    /\ pc = "normalize_call"
    /\ norm \in [img_slice : [NormShape -> 0..MaxValue],
                 source_limits : Limits,
                 target_limits : Limits,
                 ret : {None}]
    /\ ndim = 2
    /\ nslices = 0
    /\ idx = 0
    /\ gen = <<>>
    /\ masks = <<>>
    /\ all_masks = <<>>
    /\ disk = <<>>
    /\ exc = "none"
    /\ raw = <<>>
    /\ threshold = DefaultThreshold

\* a call of normalize_slice, as at lines 62-64
NormalizeCall ==
    /\ pc = "normalize_call"
    /\ norm' = [norm EXCEPT !.ret =
                  normalize_slice(norm.img_slice, norm.source_limits,
                                  norm.target_limits)]
    /\ pc' = "normalize_ret"
    /\ UNCHANGED <<ndim, nslices, idx, gen, masks, all_masks, disk, exc, raw, threshold>>

NextNorm == NormalizeCall

SpecNorm == InitNorm /\ [][NextNorm]_vars

----------------------------------------------------------------------------
(* Properties of the checkpoint protocol (specification Spec) *)

\* the intermediate checkpoint files on disk
Checkpoints == {n \in DOMAIN disk : IsCheckpoint(n)}

\* a 3D run between the start of the slice loop and the terminal write
InStackRun ==
    /\ ndim = 3
    /\ pc \in {"loop", "rasterize", "store", "save_unlink", "save_write",
               "last_unlink", "save_all"}

\* a 3D run at a point where iteration idx - 1 has completed, it was not the
\* last one, and iteration idx has not yet changed the disk (this includes a
\* run that iteration idx ended by an exception before it changed the disk)
AfterIteration ==
    /\ ndim = 3
    /\ idx >= 1
    /\ idx <= nslices - 1
    /\ \/ pc \in {"loop", "rasterize", "store", "save_unlink"}
       \/ pc = "raised" /\ exc \in {"GenerateError", "IndexError", "OSError"}

\* C1 as stated: at every point between the start of the slice loop and the
\* terminal write exactly one checkpoint file of the stack is on disk.
C1_ExactlyOneAlways == InStackRun => Cardinality(Checkpoints) = 1

\* C1, amended: the number of checkpoint files is never 2 or more; it is 1
\* from the saving of the checkpoint of slice k < N-1 until iteration k+1
\* removes it, and it is 0 before the first checkpoint is saved, in the step
\* between removing the old checkpoint and saving the new one, and after the
\* last iteration has removed the penultimate checkpoint.
C1_CheckpointCount ==
    ndim = 3 =>
        /\ Cardinality(Checkpoints) <= 1
        /\ AfterIteration => Cardinality(Checkpoints) = 1
        /\ (pc \in {"loop", "rasterize", "store", "save_unlink"} /\ idx = 0)
              => Cardinality(Checkpoints) = 0
        /\ pc = "save_write" => Cardinality(Checkpoints) = 0
        /\ (pc \in {"loop", "save_all"} /\ idx = nslices)
              => Cardinality(Checkpoints) = 0

C1_Witness ==
    /\ ndim = 3
    /\ pc = "save_write"
    /\ idx > 0
    /\ Cardinality(Checkpoints) = 0

\* C2: once iteration k < N-1 has completed, and before iteration k+1 changes
\* the disk, the checkpoint named for slice k is on disk and no other
\* checkpoint is.
C2_CheckpointNamedForSlice ==
    AfterIteration => Checkpoints = {CheckpointName(idx - 1)}

C2_Witness ==
    /\ AfterIteration
    /\ pc = "store"
    /\ idx >= 2

\* C3: after run_sam has completed on a stack, no intermediate checkpoint is
\* on disk, the terminal file is, and it holds the aligned result of every
\* slice: every slice was processed (no slice is a zero-filled placeholder).
C3_TerminalState ==
    (ndim = 3 /\ pc = "done") =>
        /\ Checkpoints = {}
        /\ DOMAIN disk = {FinalName}
        /\ idx = nslices
        /\ Len(disk[FinalName]) = nslices
        /\ disk[FinalName] = align_segment_labels(raw, DefaultThreshold)
        /\ \A i \in 1..nslices : disk[FinalName][i] # Zeros(StackShape)

C3_Witness ==
    /\ ndim = 3
    /\ pc = "done"
    /\ nslices >= 2
    /\ FinalName \in DOMAIN disk

\* the number of slices that have been stored into the volume (line 68)
StoredCount ==
    IF pc \in {"loop", "rasterize", "store"} THEN idx
    ELSE IF pc \in {"save_unlink", "save_write", "last_unlink"} THEN idx + 1
    ELSE nslices

InVolumeRun == ndim = 3 /\ pc \notin {"start", "raised", "done"}

Prefix(vol, n) == SubSeq(vol, 1, n)

\* the volume with the slices behind the first n zero-filled
ZeroFilledAfter(vol, n) ==
    [i \in 1..Len(vol) |-> IF i <= n THEN vol[i] ELSE Zeros(DOMAIN vol[i])]

----------------------------------------------------------------------------
(* Properties of create_mask_arr (specification SpecRaster) *)

\* the candidates of gen whose region covers pixel p
Covering(p) == {i \in DOMAIN gen : gen[i].segmentation[p]}

\* the 1-based rank of candidate i in descending-area order, candidates of
\* equal area ranked in the order of gen
DescendingRank(i) ==
    1 + Cardinality({j \in DOMAIN gen : gen[j].area > gen[i].area})
      + Cardinality({j \in DOMAIN gen : gen[j].area = gen[i].area /\ j < i})

PairwiseDifferentAreas(I) ==
    \A i \in I : \A j \in I : i # j => gen[i].area # gen[j].area

\* C6: a pixel covered by two or more candidates of pairwise different areas
\* carries the identifier (descending-area rank) of the covering candidate
\* with the smallest area.
C6_SmallestAreaWins ==
    pc = "raster_ret" =>
        \A p \in DOMAIN masks :
            (Cardinality(Covering(p)) >= 2 /\ PairwiseDifferentAreas(Covering(p)))
            => \E w \in Covering(p) :
                  /\ \A i \in Covering(p) : gen[w].area <= gen[i].area
                  /\ masks[p] = DescendingRank(w)

C6_Witness ==
    /\ pc = "raster_ret"
    /\ \E p \in DOMAIN masks :
          /\ Cardinality(Covering(p)) >= 2
          /\ PairwiseDifferentAreas(Covering(p))
          /\ masks[p] >= 2

\* C7: the output is non-zero exactly at the pixels that belong to the
\* region of at least one candidate.
C7_CoveredIffNonZero ==
    pc = "raster_ret" =>
        /\ DOMAIN masks = RasterShape
        /\ \A p \in DOMAIN masks : (masks[p] # 0) <=> (Covering(p) # {})

C7_Witness ==
    /\ pc = "raster_ret"
    /\ \E p \in DOMAIN masks : Covering(p) # {} /\ masks[p] # 0
    /\ \E p \in DOMAIN masks : Covering(p) = {} /\ masks[p] = 0

----------------------------------------------------------------------------
(* Properties of align_segment_labels (specification SpecAlign); raw is    *)
(* the argument and all_masks the returned volume                          *)

\* a returned call on a pair (previous, current)
PairAligned == pc = "align_ret" /\ Len(raw) = 2

\* the pixels of current (raw[2]) that carry identifier L
PixelsOf(L) == {p \in DOMAIN raw[2] : raw[2][p] = L}

\* how many pixels of L lie over value v of previous (raw[1])
Under(L, v) == Cardinality({p \in PixelsOf(L) : raw[1][p] = v})

\* the non-zero values of previous that occur most often under L
BestPrev(L) ==
    {v \in Unique(raw[1]) \ {0} :
        /\ Under(L, v) > 0
        /\ \A w \in Unique(raw[1]) \ {0} : Under(L, v) >= Under(L, w)}

\* overlap_ratio(L) >= threshold, for best_prev = b
RatioAtLeastThreshold(L, b) ==
    Under(L, b) * threshold[2] >= threshold[1] * Cardinality(PixelsOf(L))

RatioEqualsThreshold(L, b) ==
    Under(L, b) * threshold[2] = threshold[1] * Cardinality(PixelsOf(L))

\* C8: an identifier L of current with a non-zero value of previous under it
\* is relabelled, on all its pixels, to the most frequent such value when
\* overlap_ratio >= threshold (equality included) and keeps L otherwise; with
\* no non-zero value of previous under it, L is kept.
C8_ThresholdRule ==
    PairAligned =>
        \A L \in Unique(raw[2]) \ {0} :
            IF BestPrev(L) = {}
            THEN \A p \in PixelsOf(L) : all_masks[2][p] = L
            ELSE \E b \in BestPrev(L) :
                    IF RatioAtLeastThreshold(L, b)
                    THEN \A p \in PixelsOf(L) : all_masks[2][p] = b
                    ELSE \A p \in PixelsOf(L) : all_masks[2][p] = L

C8_Witness ==
    /\ PairAligned
    /\ \E L \in Unique(raw[2]) \ {0} : \E b \in BestPrev(L) :
          /\ RatioEqualsThreshold(L, b)
          /\ b # L
          /\ \A p \in PixelsOf(L) : all_masks[2][p] = b

\* C9: for a threshold <= 1.0, a stack whose slices are all pixel-identical
\* (in particular the pair previous = current = S) is returned unchanged.
C9_FixedPoint ==
    (/\ pc = "align_ret"
     /\ threshold[1] <= threshold[2]
     /\ \A i \in DOMAIN raw : raw[i] = raw[1])
    => all_masks = raw

C9_Witness ==
    /\ pc = "align_ret"
    /\ threshold[1] <= threshold[2]
    /\ Len(raw) >= 2
    /\ \A i \in DOMAIN raw : raw[i] = raw[1]
    /\ Cardinality(Unique(raw[1]) \ {0}) >= 2
    /\ all_masks = raw

\* C10: a pixel is 0 in the aligned output iff it is 0 in current, and the
\* value 0 of previous is never the relabel target.
C10_BackgroundKept ==
    pc = "align_ret" =>
        \A i \in DOMAIN raw : \A p \in DOMAIN raw[i] :
            (all_masks[i][p] = 0) <=> (raw[i][p] = 0)

\* an object of current lying mostly over the background of previous
C10_Witness ==
    /\ PairAligned
    /\ \E L \in Unique(raw[2]) \ {0} :
          /\ 2 * Under(L, 0) > Cardinality(PixelsOf(L))
          /\ BestPrev(L) # {}
          /\ \A p \in PixelsOf(L) : all_masks[2][p] # 0

----------------------------------------------------------------------------
(* Properties of the orchestrator on failures and special shapes           *)
(* (specification Spec)                                                    *)

\* C11 as stated: a stack of exactly one slice with a non-empty candidate
\* set runs to completion; no deletion is attempted and no error is raised
\* (a run can only end in an error if the terminal write itself fails).
C11_SingleSliceCompletes ==
    (ndim = 3 /\ nslices = 1 /\ Len(gen) > 0 /\ pc = "raised")
    => exc = "SaveError"

\* C12 as stated: when the write of the checkpoint for slice i >= 1 fails,
\* the stack is aborted, no terminal file is written, and the checkpoint for
\* slice i-1 is still on disk.
C12_PriorCheckpointPreserved ==
    (/\ ndim = 3
     /\ pc = "raised"
     /\ exc = "SaveError"
     /\ idx >= 1
     /\ idx < nslices - 1)
    => /\ FinalName \notin DOMAIN disk
       /\ CheckpointName(idx - 1) \in DOMAIN disk

\* C13 as stated: a failed deletion of a stale checkpoint (a missing file
\* included) never ends the run, in save_masks and in the last-slice branch.
C13_DeleteFailureSwallowed ==
    pc = "raised" => exc \notin {"FileNotFoundError", "OSError"}


\* C14: when the generator or the rasterizer fails on slice k >= 1, the run
\* ends there: nothing can follow, slice k and the later slices are not
\* stored, no terminal file is written, and the checkpoint written for
\* slice k-1 is on disk.
C14_FailureAbortsStack ==
    (/\ ndim = 3
     /\ pc = "raised"
     /\ exc \in {"GenerateError", "IndexError"}
     /\ idx >= 1)
    => /\ CheckpointName(idx - 1) \in DOMAIN disk
       /\ FinalName \notin DOMAIN disk
       /\ \A j \in (idx + 1)..nslices : all_masks[j] = Zeros(StackShape)
       /\ ~ENABLED Next

C14_Witness ==
    /\ ndim = 3
    /\ pc = "raised"
    /\ exc = "IndexError"
    /\ idx >= 1
    /\ CheckpointName(idx - 1) \in DOMAIN disk

\* C15 as stated: for a stack of N >= 2 slices, at the boundary after every
\* iteration k in 0..N-1 and until the terminal file is written, a
\* checkpoint holding the results of slices 0..k is on disk.
C15_CheckpointAtEveryBoundary ==
    (/\ ndim = 3
     /\ nslices >= 2
     /\ idx >= 1
     /\ pc \in {"loop", "save_all"})
    => \E n \in Checkpoints : Prefix(disk[n], idx) = Prefix(raw, idx)

\* C16: with a dimensionality other than 2 or 3, run_sam raises before any
\* processing: the generator is never invoked and no file is created or
\* deleted.
C16_UnsupportedShapeRejected ==
    ndim \notin {2, 3} =>
        /\ pc \in {"start", "raised"}
        /\ pc = "raised" => exc = "ValueError"
        /\ gen = <<>>
        /\ masks = <<>>
        /\ disk = <<>>

C16_Witness ==
    /\ ndim \notin {2, 3}
    /\ pc = "raised"
    /\ exc = "ValueError"

\* C17: create_mask_arr on an empty candidate list raises and returns no
\* label array, and inside a run the error is fatal: nothing is stored or
\* written, and no step follows an error.
C17_EmptyCandidatesFatal ==
    [][/\ (pc = "rasterize" /\ Len(gen) = 0)
            => /\ pc' = "raised"
               /\ exc' = "IndexError"
               /\ masks' = masks
               /\ all_masks' = all_masks
               /\ disk' = disk
       /\ pc # "raised"]_vars

C17_Witness ==
    /\ ndim = 3
    /\ pc = "raised"
    /\ exc = "IndexError"
    /\ Len(gen) = 0

\* C19: for 2D input the single-slice path is taken: one generator call, one
\* rasterization, no loop, no alignment, no intermediate checkpoint written
\* or deleted, and one terminal file, holding the rasterized slice.
C19_SingleSlicePath ==
    [][ndim = 2 =>
         /\ <<pc, pc'>> \in {<<"start", "generate">>,
                             <<"generate", "rasterize">>, <<"generate", "raised">>,
                             <<"rasterize", "save_all">>, <<"rasterize", "raised">>,
                             <<"save_all", "done">>, <<"save_all", "raised">>}
         /\ Checkpoints' = {}
         /\ pc # "rasterize" => all_masks' = all_masks
         /\ pc' = "save_all" => all_masks' = create_mask_arr(gen')
         /\ pc' = "done" =>
               /\ DOMAIN disk' = {FinalName}
               /\ disk'[FinalName] = create_mask_arr(gen')]_vars

C19_Witness ==
    /\ ndim = 2
    /\ pc = "done"
    /\ DOMAIN disk = {FinalName}

\* C20 as stated: in save_masks for slice i >= 1 the checkpoint for i is
\* saved before the checkpoint for i-1 is deleted: in no state has the file
\* for i-1 been deleted while the file for i is not yet written.
C20_WriteBeforeDelete ==
    (/\ ndim = 3
     /\ idx >= 1
     /\ pc = "save_write")
    => ~(/\ CheckpointName(idx - 1) \notin DOMAIN disk
         /\ CheckpointName(idx) \notin DOMAIN disk)

----------------------------------------------------------------------------
(* Properties of normalize_slice (specification SpecNorm) *)

SourceZeroWidth ==
    /\ norm.source_limits # None
    /\ norm.source_limits[1] = norm.source_limits[2]

TargetZeroWidth ==
    /\ norm.target_limits # None
    /\ norm.target_limits[1] = norm.target_limits[2]

\* C18: with a zero-width source range or a zero-width target range,
\* normalize_slice returns a slice of the same shape with every value 0, and
\* does not raise.
C18_ZeroWidthGivesZeros ==
    (pc = "normalize_ret" /\ (SourceZeroWidth \/ TargetZeroWidth))
    => /\ exc = "none"
       /\ DOMAIN norm.ret = DOMAIN norm.img_slice
       /\ \A p \in DOMAIN norm.ret : norm.ret[p][1] = 0

C18_Witness ==
    /\ pc = "normalize_ret"
    /\ TargetZeroWidth
    /\ ~SourceZeroWidth
    /\ norm.target_limits[1] # 0
    /\ \E p \in DOMAIN norm.img_slice : norm.img_slice[p] # 0
    /\ \A p \in DOMAIN norm.ret : norm.ret[p][1] = 0

----------------------------------------------------------------------------
(* Ties of area in create_mask_arr (specification SpecRaster) *)

\* candidate j is painted after candidate i: its area is smaller, or the
\* areas are equal and j comes later in the generator's output
PaintedAfter(i, j) ==
    \/ gen[j].area < gen[i].area
    \/ gen[j].area = gen[i].area /\ i < j

\* the identifier of candidate i: one more than the number of candidates
\* painted before it
IdentifierOf(i) == 1 + Cardinality({j \in DOMAIN gen : PaintedAfter(j, i)})

\* C23: create_mask_arr gives the candidates the identifiers 1..N in
\* descending order of area, candidates of equal area in the order of the
\* generator's output; every covered pixel carries the identifier of the
\* covering candidate painted last, so where two candidates of equal area
\* overlap, the value is at least the identifier of the later one, which is
\* larger than that of the earlier one.
C23_TiesKeepGeneratorOrder ==
    pc = "raster_ret" =>
        /\ {IdentifierOf(i) : i \in DOMAIN gen} = 1..Len(gen)
        /\ \A p \in DOMAIN masks :
             \A w \in Covering(p) :
                (\A i \in Covering(p) \ {w} : PaintedAfter(i, w))
                    => masks[p] = IdentifierOf(w)
        /\ \A i, j \in DOMAIN gen :
             (i < j /\ gen[i].area = gen[j].area) =>
                /\ IdentifierOf(i) < IdentifierOf(j)
                /\ \A p \in DOMAIN masks :
                     (gen[i].segmentation[p] /\ gen[j].segmentation[p])
                        => masks[p] >= IdentifierOf(j)

C23_Witness ==
    /\ pc = "raster_ret"
    /\ \E i, j \in DOMAIN gen :
         /\ i < j
         /\ gen[i].area = gen[j].area
         /\ gen[i].segmentation # gen[j].segmentation
         /\ \E p \in DOMAIN masks :
              /\ Covering(p) = {i, j}
              /\ masks[p] = IdentifierOf(j)
              /\ IdentifierOf(j) = IdentifierOf(i) + 1

----------------------------------------------------------------------------
(* Order, identity and ties in align_segment_labels (specification SpecAlign) *)

\* the orders in which the identifiers of S can be processed
Orders(S) ==
    {order \in [1..Cardinality(S) -> S] :
        \A a, b \in DOMAIN order : a # b => order[a] # order[b]}

\* C22: processing the distinct non-zero identifiers of current in any
\* order gives the aligned output the code gives: the value written on a
\* pixel of identifier L is decided from previous and the original current
\* alone, and is written on the pixels of L and no others.
C22_OrderIndependent ==
    PairAligned =>
        /\ \A order \in Orders(Unique(raw[2]) \ {0}) :
              RelabelFrom(raw[1], raw[2], order, 1, Zeros(DOMAIN raw[2]), threshold)
                  = all_masks[2]
        /\ \A p \in DOMAIN raw[2] :
              raw[2][p] # 0 =>
                  all_masks[2][p] = NewLabel(raw[1], raw[2], raw[2][p], threshold)

\* two identifiers of current that exchange their values
C22_Witness ==
    /\ PairAligned
    /\ \E L, M \in Unique(raw[2]) \ {0} :
          /\ L # M
          /\ \A p \in PixelsOf(L) : all_masks[2][p] = M
          /\ \A p \in PixelsOf(M) : all_masks[2][p] = L

\* C26: in every aligned slice, two pixels that carry the same non-zero
\* identifier in the input carry the same identifier in the output; every
\* non-zero identifier of the output is one of the input slice or of the
\* (aligned) slice before it; and the output has at most as many distinct
\* non-zero identifiers as the input slice.
C26_NoSplitNoInvention ==
    pc = "align_ret" =>
        \A i \in 2..Len(raw) :
            /\ \A p, q \in DOMAIN raw[i] :
                  (raw[i][p] # 0 /\ raw[i][p] = raw[i][q])
                      => all_masks[i][p] = all_masks[i][q]
            /\ Unique(all_masks[i]) \ {0}
                  \subseteq (Unique(raw[i]) \cup Unique(all_masks[i - 1]))
            /\ Cardinality(Unique(all_masks[i]) \ {0})
                  <= Cardinality(Unique(raw[i]) \ {0})

\* an object lying over two objects of previous is relabelled as a whole,
\* and two objects of current merge into one identifier
C26_Witness ==
    /\ PairAligned
    /\ \E L \in Unique(raw[2]) \ {0} :
          /\ Cardinality({raw[1][p] : p \in PixelsOf(L)} \ {0}) >= 2
          /\ \A p \in PixelsOf(L) : all_masks[2][p] # L
    /\ Cardinality(Unique(all_masks[2]) \ {0}) < Cardinality(Unique(raw[2]) \ {0})

\* the numerically smallest of the values of BestPrev(L)
SmallestBestPrev(L) == CHOOSE b \in BestPrev(L) : \A c \in BestPrev(L) : b <= c

\* C27: when several non-zero identifiers of previous have the same maximal
\* pixel count under an identifier L of current, the numerically smallest
\* of them is best_prev: with overlap_ratio >= threshold all pixels of L
\* take that value.
C27_SmallestOfTiedWins ==
    PairAligned =>
        \A L \in Unique(raw[2]) \ {0} :
            (/\ Cardinality(BestPrev(L)) >= 2
             /\ RatioAtLeastThreshold(L, SmallestBestPrev(L)))
            => \A p \in PixelsOf(L) : all_masks[2][p] = SmallestBestPrev(L)

C27_Witness ==
    /\ PairAligned
    /\ \E L \in Unique(raw[2]) \ {0} :
          /\ Cardinality(BestPrev(L)) >= 2
          /\ SmallestBestPrev(L) # L
          /\ RatioAtLeastThreshold(L, SmallestBestPrev(L))
          /\ \A p \in PixelsOf(L) : all_masks[2][p] = SmallestBestPrev(L)

----------------------------------------------------------------------------
(* Identity along the stack (specification SpecChain) *)

\* an object: one non-zero identifier of the input in every slice
ObjectsOf ==
    {obj \in [DOMAIN raw -> UNION {Unique(raw[i]) \ {0} : i \in DOMAIN raw}] :
        \A i \in DOMAIN raw : obj[i] \in Unique(raw[i])}

\* the pixels of the object in slice i
RegionOf(obj, i) == {p \in DOMAIN raw[i] : raw[i][p] = obj[i]}

\* the identifier the object has in slice i of the output
AlignedIdOf(obj, i) == all_masks[i][CHOOSE p \in RegionOf(obj, i) : TRUE]

\* how many pixels of the object in slice i+1 lie over value v of the
\* aligned slice i
CountUnder(obj, i, v) ==
    Cardinality({p \in RegionOf(obj, i + 1) : all_masks[i][p] = v})

\* between slices i and i+1 the object is the most frequent non-zero label
\* under its region in slice i+1, with overlap ratio >= threshold
Continues(obj, i) ==
    LET a == AlignedIdOf(obj, i)
    IN  /\ CountUnder(obj, i, a) > 0
        /\ \A w \in Unique(all_masks[i]) \ {0, a} :
              CountUnder(obj, i, a) > CountUnder(obj, i, w)
        /\ CountUnder(obj, i, a) * threshold[2]
              >= threshold[1] * Cardinality(RegionOf(obj, i + 1))

\* C24: slice i+1 is aligned against the aligned slice i, so an object that
\* in every pair of consecutive slices is the most frequent non-zero label
\* under its region, with overlap ratio >= threshold, carries in every slice
\* of the output the identifier it has in the first slice, whatever
\* identifiers it has in the input.
C24_IdentityPropagates ==
    pc = "align_ret" =>
        \A obj \in ObjectsOf :
            (\A i \in 1..(Len(raw) - 1) : Continues(obj, i))
            => \A i \in DOMAIN raw : \A p \in RegionOf(obj, i) :
                   all_masks[i][p] = obj[1]

\* an object whose input identifier differs from that of the first slice in
\* two consecutive slices
C24_Witness ==
    /\ pc = "align_ret"
    /\ Len(raw) >= 3
    /\ \E obj \in ObjectsOf :
          /\ \A i \in 1..(Len(raw) - 1) : Continues(obj, i)
          /\ \A i \in 2..Len(raw) : obj[i] # obj[1]
          /\ \A i \in DOMAIN raw : \A p \in RegionOf(obj, i) :
                all_masks[i][p] = obj[1]

----------------------------------------------------------------------------
(* Order of the slices and the files on disk (specification Spec) *)

\* C21: in the 3D path the slices are processed in increasing index order:
\* the index only ever advances by one; the generator is invoked only at the
\* head of the loop, for the current index, and the head of the loop is
\* reached again only with the next index, from the checkpoint step of the
\* slice before, so each index sees one invocation; when the generator is
\* invoked for slice i >= 1, slice i-1 is stored and its checkpoint is on
\* disk; and no step follows a failure.
C21_StrictSliceOrder ==
    [][ndim = 3 =>
         /\ idx' \in {idx, idx + 1}
         /\ pc' = "rasterize" =>
               /\ pc = "loop"
               /\ idx < nslices
               /\ idx' = idx
               /\ idx >= 1 =>
                     /\ raw[idx] = create_mask_arr(gen)
                     /\ all_masks[idx] = raw[idx]
                     /\ CheckpointName(idx - 1) \in DOMAIN disk
         /\ (pc' = "loop" /\ pc # "start") =>
               /\ pc \in {"save_write", "last_unlink"}
               /\ idx' = idx + 1
         /\ idx' = idx + 1 =>
               /\ pc' = "loop"
               /\ raw[idx + 1] = create_mask_arr(gen)
         /\ pc # "raised"]_vars

C21_Witness ==
    /\ ndim = 3
    /\ pc = "rasterize"
    /\ idx = 2
    /\ CheckpointName(1) \in DOMAIN disk

\* C25: in every state of a run, the states between a delete and a write and
\* the states after a failure included, at most one intermediate checkpoint
\* file of the stack is on disk (the directory holds none at the start).
C25_AtMostOneCheckpoint ==
    Cardinality({name \in DOMAIN disk : IsCheckpoint(name)}) <= 1

C25_Witness ==
    /\ ndim = 3
    /\ pc = "raised"
    /\ exc = "GenerateError"
    /\ idx = 2
    /\ DOMAIN disk = {CheckpointName(1)}

====
